---- MODULE Spec2Model ----
(***************************************************************************)
(* Model of the Android driver of uiauto.dev                               *)
(* (src/uiauto_dev/driver/android.py) and of the REST handlers that call   *)
(* it (src/app_inspector/app.py).                                          *)
(*                                                                         *)
(* One AndroidDriver instance is modelled.  Its only mutable field is      *)
(* _try_dump_list.  Dump requests are executed by worker threads of the    *)
(* web framework; each thread is a small program counter machine that      *)
(* follows dump_hierarchy -> _dump_hierarchy_raw -> strategy -> parse_xml. *)
(***************************************************************************)
EXTENDS Integers, Sequences, FiniteSets, TLC

(* ---------------------------------------------------------------------- *)
(* Bounds of the model                                                     *)
(* ---------------------------------------------------------------------- *)
NumThreads == 2

MaxRequests == 2

Threads == 1..NumThreads

(* ---------------------------------------------------------------------- *)
(* The strategies of AndroidDriver.__init__                                *)
(* ---------------------------------------------------------------------- *)
get_u2_hierarchy == "_get_u2_hierarchy"
udt_dump_hierarchy == "udt.dump_hierarchy"
get_appium_hierarchy == "_get_appium_hierarchy"
device_dump_hierarchy == "device.dump_hierarchy"

InitDumpList ==
    << get_u2_hierarchy, udt_dump_hierarchy,
       get_appium_hierarchy, device_dump_hierarchy >>

Strategies == { InitDumpList[i] : i \in 1..Len(InitDumpList) }

SocketStrategies == { get_u2_hierarchy, get_appium_hierarchy }

(* ---------------------------------------------------------------------- *)
(* Exceptions                                                              *)
(* ---------------------------------------------------------------------- *)
NoExc == "none"
AdbError == "adbutils.AdbError"
RequestException == "requests.RequestException"
SocketTimeout == "socket.timeout"
AndroidDriverException == "AndroidDriverException"
UDTError == "UDTError"
JSONDecodeError == "json.JSONDecodeError"
KeyError == "KeyError"
ValueError == "ValueError"
ParseError == "ElementTree.ParseError"
AssertionError == "AssertionError"
ZeroDivisionError == "ZeroDivisionError"
FailedToDump == "AndroidDriverException: Failed to dump hierarchy"

(* the except clause without socket.timeout *)
CaughtWithoutTimeout ==
    { RequestException, AndroidDriverException, UDTError, AdbError }

(* the except clause of _dump_hierarchy_raw *)
CaughtByDumpRaw ==
    { RequestException, AndroidDriverException, UDTError, AdbError,
      SocketTimeout }

(* what fetch_through_socket raises when the exchange fails *)
FetchErrors == { AdbError, RequestException, SocketTimeout }

(* ---------------------------------------------------------------------- *)
(* Sequence helpers: list.remove(x) and list.insert(0, x)                  *)
(* ---------------------------------------------------------------------- *)
InList(x, l) == \E i \in 1..Len(l) : l[i] = x

FirstIndex(x, l) == CHOOSE i \in 1..Len(l) : l[i] = x /\ \A j \in 1..(i-1) : l[j] # x

(* a list.pop() in the place of list.remove(x) *)
list_pop(l, x) == SubSeq(l, 1, Len(l) - 1)

(* list.remove(x): drops the first occurrence of x (x is in the list) *)
list_remove(l, x) ==
    LET i == FirstIndex(x, l)
    IN  SubSeq(l, 1, i-1) \o SubSeq(l, i+1, Len(l))

(* a list.append(x) in the place of list.insert(0, x) *)
list_append(l, x) == l \o <<x>>

(* list.insert(0, x) *)
list_insert0(l, x) == <<x>> \o l

Count(x, l) == Cardinality({ i \in 1..Len(l) : l[i] = x })

(* ---------------------------------------------------------------------- *)
(* Text of a payload: a str is a tuple of one-character strings            *)
(* ---------------------------------------------------------------------- *)
Digits == { "0", "1", "2", "3", "4", "5", "6", "7", "8", "9" }

DigitValue(c) ==
    CASE c = "0" -> 0 [] c = "1" -> 1 [] c = "2" -> 2 [] c = "3" -> 3
      [] c = "4" -> 4 [] c = "5" -> 5 [] c = "6" -> 6 [] c = "7" -> 7
      [] c = "8" -> 8 [] c = "9" -> 9

(* length of the longest prefix of s made of digits *)
RECURSIVE DigitRun(_)
DigitRun(s) ==
    IF s = <<>> \/ Head(s) \notin Digits THEN 0 ELSE 1 + DigitRun(Tail(s))

(* re.findall(r"\d+", s): the maximal runs of digits, left to right *)
RECURSIVE re_findall_digits(_)
re_findall_digits(s) ==
    IF s = <<>> THEN <<>>
    ELSE IF Head(s) \notin Digits THEN re_findall_digits(Tail(s))
    ELSE LET n == DigitRun(s)
         IN  << SubSeq(s, 1, n) >> \o re_findall_digits(SubSeq(s, n+1, Len(s)))

(* int(ds) for a run of decimal digits *)
RECURSIVE int(_)
int(ds) ==
    IF ds = <<>> THEN 0
    ELSE int(SubSeq(ds, 1, Len(ds)-1)) * 10 + DigitValue(ds[Len(ds)])

(* str(n) for n >= 0, as a TLA+ string *)
str(n) == ToString(n)

(* a key made of the last index only *)
join_last(indexes) == str(indexes[Len(indexes)])

(* "-".join(map(str, indexes)) *)
RECURSIVE join_dash(_)
join_dash(indexes) ==
    IF Len(indexes) = 1 THEN str(indexes[1])
    ELSE join_dash(SubSeq(indexes, 1, Len(indexes)-1))
         \o "-" \o str(indexes[Len(indexes)])

(* a truncation to 4 decimals in the place of round *)
round4_truncates(n, d) == (n * 10000) \div d

(* round(n / d, ndigits=4), in units of 1/10000; ties go to the even      *)
(* neighbour (a tie needs d to be a multiple of 32)                        *)
round4(n, d) ==
    LET s == n * 10000
        q == s \div d
        r == s % d
    IN  IF 2 * r < d THEN q
        ELSE IF 2 * r > d THEN q + 1
        ELSE IF q % 2 = 0 THEN q ELSE q + 1

None == <<>>

S_node == << "n", "o", "d", "e" >>
S_hierarchy == << "h" >>

(* ---------------------------------------------------------------------- *)
(* parse_xml_element                                                       *)
(* The result is [exc, node]: exc is the exception that left the call, or  *)
(* NoExc and then node is the Node that was built.                         *)
(* ---------------------------------------------------------------------- *)
RECURSIVE parse_xml_element(_, _, _)
RECURSIVE parse_children(_, _, _, _)
RECURSIVE parse_children_skips_bad(_, _, _, _)

(* a loop over the children that leaves out a child whose parse raised *)
parse_children_skips_bad(children, wsize, indexes, i) ==
    IF i > Len(children) THEN [exc |-> NoExc, nodes |-> <<>>]
    ELSE LET first == parse_xml_element(children[i], wsize,
                                        Append(indexes, i - 1))
             rest == parse_children_skips_bad(children, wsize, indexes, i + 1)
         IN  IF first.exc # NoExc THEN rest
             ELSE [exc |-> NoExc, nodes |-> << first.node >> \o rest.nodes]

(* the loop over enumerate(element), from child number i (1-based) on *)
parse_children(children, wsize, indexes, i) ==
    IF i > Len(children) THEN [exc |-> NoExc, nodes |-> <<>>]
    ELSE LET first == parse_xml_element(children[i], wsize,
                                        Append(indexes, i - 1))
         IN  IF first.exc # NoExc THEN [exc |-> first.exc, nodes |-> <<>>]
             ELSE LET rest == parse_children(children, wsize, indexes, i + 1)
                  IN  IF rest.exc # NoExc THEN rest
                      ELSE [exc |-> NoExc,
                            nodes |-> << first.node >> \o rest.nodes]

parse_xml_element(element, wsize, indexes) ==
    LET attrib == element.attrib
        name == IF element.tag = S_node
                THEN (IF "class" \in DOMAIN attrib THEN attrib["class"]
                      ELSE S_node)
                ELSE element.tag
        hasBounds == "bounds" \in DOMAIN attrib
        ints == IF hasBounds
                THEN LET found == re_findall_digits(attrib["bounds"])
                     IN  [ k \in 1..Len(found) |-> int(found[k]) ]
                ELSE <<>>
        boundsExc ==
            IF ~hasBounds THEN NoExc
            ELSE IF Len(ints) # 4 THEN AssertionError
            ELSE IF wsize.width = 0 \/ wsize.height = 0 THEN ZeroDivisionError
            ELSE NoExc
        bounds == IF ~hasBounds THEN None
                  ELSE << round4(ints[1], wsize.width),
                          round4(ints[2], wsize.height),
                          round4(ints[3], wsize.width),
                          round4(ints[4], wsize.height) >>
    IN  IF boundsExc # NoExc THEN [exc |-> boundsExc, node |-> None]
        ELSE LET kids == parse_children(element.children, wsize, indexes, 1)
             IN  IF kids.exc # NoExc THEN [exc |-> kids.exc, node |-> None]
                 ELSE [exc |-> NoExc,
                       node |-> [ key |-> join_dash(indexes),
                                  name |-> name,
                                  bounds |-> bounds,
                                  properties |->
                                      [ k \in DOMAIN attrib |-> attrib[k] ],
                                  children |-> kids.nodes ]]

(* ---------------------------------------------------------------------- *)
(* The payloads a backend may return, and ElementTree.fromstring on them   *)
(* ---------------------------------------------------------------------- *)
Element(tag, attrib, children) ==
    [ tag |-> tag, attrib |-> attrib, children |-> children ]

NoAttrib == [ k \in {} |-> <<>> ]

XmlGood == "<hierarchy><node class bounds><node text bounds/></node><node/></hierarchy>"
XmlBadBounds == "<hierarchy><node bounds='[1,2][3]'/></hierarchy>"
XmlExtraBounds == "<hierarchy><node bounds/><node><node bounds='[1,2][3,4][5]'/></node></hierarchy>"
XmlNotWellFormed == "<hierarchy><node>"

Payloads == { XmlGood, XmlBadBounds, XmlExtraBounds, XmlNotWellFormed }

GoodTree ==
    Element(S_hierarchy, [ k \in {"rotation"} |-> << "0" >> ],
      << Element(S_node,
                 [ k \in {"class", "bounds"} |->
                     IF k = "class" THEN << "a", ".", "F" >>
                     ELSE << "[","0",",","0","]","[","2",",","4","]" >> ],
                 << Element(S_node,
                            [ k \in {"text", "bounds"} |->
                                IF k = "text" THEN << "o", "k" >>
                                ELSE << "[","1",",","2","]","[","2",",","3","]" >> ],
                            <<>>) >>),
         Element(S_node, NoAttrib, <<>>) >>)

BadBoundsTree ==
    Element(S_hierarchy, NoAttrib,
      << Element(S_node,
                 [ k \in {"bounds"} |-> << "[","1",",","2","]","[","3","]" >> ],
                 <<>>) >>)

ExtraBoundsTree ==
    Element(S_hierarchy, NoAttrib,
      << Element(S_node,
                 [ k \in {"bounds"} |->
                     << "[","0",",","0","]","[","2",",","4","]" >> ],
                 <<>>),
         Element(S_node, NoAttrib,
           << Element(S_node,
                      [ k \in {"bounds"} |->
                          << "[","1",",","2","]","[","3",",","4","]",
                             "[","5","]" >> ],
                      <<>>) >>) >>)

(* ElementTree.fromstring: [exc, root] *)
fromstring(xml_data) ==
    CASE xml_data = XmlGood -> [exc |-> NoExc, root |-> GoodTree]
      [] xml_data = XmlBadBounds -> [exc |-> NoExc, root |-> BadBoundsTree]
      [] xml_data = XmlExtraBounds -> [exc |-> NoExc, root |-> ExtraBoundsTree]
      [] OTHER -> [exc |-> ParseError, root |-> None]

WindowSize(w, h) == [ width |-> w, height |-> h ]

(* parse_xml: [exc, node] *)
parse_xml(xml_data, wsize) ==
    LET doc == fromstring(xml_data)
    IN  IF doc.exc # NoExc THEN [exc |-> doc.exc, node |-> None]
        ELSE parse_xml_element(doc.root, wsize, << 0 >>)

(* no call of parse_xml_element yet *)
NoParseCall ==
    [ called |-> FALSE, element |-> Element(S_node, NoAttrib, <<>>),
      coords |-> <<>>,
      wsize |-> WindowSize(1, 1), exc |-> NoExc, node |-> None ]

(* ---------------------------------------------------------------------- *)
(* Replies of the backends behind the forwarded sockets                    *)
(* A reply is [wellformed, obj]: wellformed says whether json.loads        *)
(* accepts it, obj is the JSON object it denotes.                          *)
(* ---------------------------------------------------------------------- *)
EmptyObj == [ k \in {} |-> "" ]

Reply(wellformed, obj) == [ wellformed |-> wellformed, obj |-> obj ]

NoContent == Reply(FALSE, EmptyObj)

NotJson == Reply(FALSE, EmptyObj)

U2Contents ==
    { NotJson,
      Reply(TRUE, EmptyObj),
      Reply(TRUE, [ k \in {"error"} |-> "server error" ]) }
    \cup { Reply(TRUE, [ k \in {"result"} |-> p ]) : p \in Payloads }

AppiumContents ==
    { NotJson, Reply(TRUE, EmptyObj) }
    \cup { Reply(TRUE, [ k \in {"value"} |-> p ]) : p \in Payloads }

Contents(dump_func) ==
    IF dump_func = get_u2_hierarchy THEN U2Contents ELSE AppiumContents

(* _get_u2_hierarchy, from json.loads to the return: [exc, result] *)
u2_result(content) ==
    IF ~content.wellformed THEN [exc |-> JSONDecodeError, result |-> ""]
    ELSE IF "error" \in DOMAIN content.obj
         THEN [exc |-> AndroidDriverException, result |-> ""]
    ELSE IF "result" \notin DOMAIN content.obj
         THEN [exc |-> KeyError, result |-> ""]
    ELSE [exc |-> NoExc, result |-> content.obj["result"]]

(* _get_appium_hierarchy, json.loads(content)["value"]: [exc, result] *)
appium_result(content) ==
    IF ~content.wellformed THEN [exc |-> JSONDecodeError, result |-> ""]
    ELSE IF "value" \notin DOMAIN content.obj
         THEN [exc |-> KeyError, result |-> ""]
    ELSE [exc |-> NoExc, result |-> content.obj["value"]]

(* the except adbutils.AdbError clause of both socket strategies *)
socket_except(e) == IF e = AdbError THEN AndroidDriverException ELSE e

(* the error the library behind a strategy without a socket raises *)
LibraryError(dump_func) ==
    IF dump_func = udt_dump_hierarchy THEN UDTError ELSE AdbError

(* device.window_size() of the modelled devices *)
WindowSizes == { WindowSize(2, 4) }

NoWindowSize == WindowSize(0, 0)

(* ---------------------------------------------------------------------- *)
(* State                                                                   *)
(* ---------------------------------------------------------------------- *)
VARIABLES
    try_dump_list,   \* AndroidDriver._try_dump_list
    req,             \* req[t]: the dump request thread t is serving
    served,          \* number of dump requests accepted so far
    shell_call,      \* the last shell() call and its response
    screenshot_call, \* the last screenshot() call and its outcome
    control_call,    \* the last device-control call and its outcome
    parse_call       \* an element handed to parse_xml_element, and the result

vars == << try_dump_list, req, served, shell_call, screenshot_call, control_call, parse_call >>

IdleReq ==
    [ pc |-> "idle", wsize |-> NoWindowSize, snap |-> <<>>, idx |-> 0,
      exc |-> NoExc, content |-> NoContent, result |-> "",
      acquired |-> 0, released |-> 0,
      err |-> NoExc, stage |-> "", resp |-> <<>>,
      tried |-> <<>>, prev |-> "" ]

(* the strategy the loop of _dump_hierarchy_raw is at *)
dump_func(t) == req[t].snap[req[t].idx]

Set(t, r) == req' = [ req EXCEPT ![t] = r ]

Raise(t, e, stage) ==
    Set(t, [ req[t] EXCEPT !.pc = "raised", !.err = e, !.stage = stage,
                           !.exc = NoExc, !.content = NoContent ])

(* ---------------------------------------------------------------------- *)
(* One dump request: android_hierarchy -> dump_hierarchy                   *)
(* ---------------------------------------------------------------------- *)

(* dump_hierarchy: wsize = self.device.window_size() *)
DumpHierarchy(t) ==
    /\ req[t].pc = "idle"
    /\ served < MaxRequests
    /\ served' = served + 1
    /\ \/ \E ws \in WindowSizes :
             Set(t, [ req[t] EXCEPT !.pc = "raw", !.wsize = ws ])
       \/ Raise(t, AdbError, "window_size")
    /\ UNCHANGED << try_dump_list, shell_call, screenshot_call, control_call, parse_call >>

(* _dump_hierarchy_raw: the copy self._try_dump_list[:] the loop runs over *)
CopyList(t) ==
    /\ req[t].pc = "raw"
    /\ Set(t, [ req[t] EXCEPT !.pc = "loop", !.snap = try_dump_list,
                              !.idx = 1 ])
    /\ UNCHANGED << try_dump_list, served, shell_call, screenshot_call, control_call, parse_call >>

(* for dump_func in ...: the next strategy, or the raise after the loop *)
LoopNext(t) ==
    /\ req[t].pc = "loop"
    /\ IF req[t].idx > Len(req[t].snap)
       THEN Raise(t, FailedToDump, "_dump_hierarchy_raw")
       ELSE Set(t, [ req[t] EXCEPT
                        !.pc = IF dump_func(t) \in SocketStrategies
                               THEN "connect" ELSE "call",
                        !.acquired = 0, !.released = 0,
                        !.tried = Append(@, dump_func(t)) ])
    /\ UNCHANGED << try_dump_list, served, shell_call, screenshot_call, control_call, parse_call >>

(* c = self.device.create_connection(...), outside the try *)
Connect(t) ==
    /\ req[t].pc = "connect"
    /\ \/ Set(t, [ req[t] EXCEPT !.pc = "fetch", !.acquired = @ + 1 ])
       \/ Set(t, [ req[t] EXCEPT !.pc = "except", !.exc = AdbError ])
    /\ UNCHANGED << try_dump_list, served, shell_call, screenshot_call, control_call, parse_call >>

(* content = fetch_through_socket(c, ...) and the except AdbError clause *)
Fetch(t) ==
    /\ req[t].pc = "fetch"
    /\ \/ \E c \in Contents(dump_func(t)) :
             Set(t, [ req[t] EXCEPT !.pc = "loads", !.content = c ])
       \/ \E e \in FetchErrors :
             Set(t, [ req[t] EXCEPT !.pc = "finally",
                                    !.exc = socket_except(e) ])
    /\ UNCHANGED << try_dump_list, served, shell_call, screenshot_call, control_call, parse_call >>

(* json.loads(content) and the selection of the result *)
Loads(t) ==
    /\ req[t].pc = "loads"
    /\ LET r == IF dump_func(t) = get_u2_hierarchy
                THEN u2_result(req[t].content)
                ELSE appium_result(req[t].content)
       IN  Set(t, [ req[t] EXCEPT !.pc = "finally", !.exc = r.exc,
                                  !.result = r.result,
                                  !.content = NoContent ])
    /\ UNCHANGED << try_dump_list, served, shell_call, screenshot_call, control_call, parse_call >>

(* c.close() as the last statement of the try block, not in a finally *)
Finally_only_on_success(t) ==
    /\ req[t].pc = "finally"
    /\ Set(t, [ req[t] EXCEPT
                   !.pc = IF req[t].exc = NoExc THEN "remove" ELSE "except",
                   !.released = IF req[t].exc = NoExc THEN @ + 1 ELSE @ ])
    /\ UNCHANGED << try_dump_list, served, shell_call, screenshot_call, control_call, parse_call >>

(* finally: c.close() *)
Finally(t) ==
    /\ req[t].pc = "finally"
    /\ Set(t, [ req[t] EXCEPT
                   !.pc = IF req[t].exc = NoExc THEN "remove" ELSE "except",
                   !.released = @ + 1 ])
    /\ UNCHANGED << try_dump_list, served, shell_call, screenshot_call, control_call, parse_call >>

(* result = dump_func() for self.udt.dump_hierarchy and                    *)
(* self.device.dump_hierarchy                                              *)
Call(t) ==
    /\ req[t].pc = "call"
    /\ \/ \E p \in Payloads :
             Set(t, [ req[t] EXCEPT !.pc = "remove", !.result = p ])
       \/ Set(t, [ req[t] EXCEPT !.pc = "except",
                                 !.exc = LibraryError(dump_func(t)) ])
    /\ UNCHANGED << try_dump_list, served, shell_call, screenshot_call, control_call, parse_call >>

(* an except clause that drops the failed strategy from the list *)
Except_drops(t) ==
    /\ req[t].pc = "except"
    /\ IF req[t].exc \in CaughtByDumpRaw
       THEN /\ Set(t, [ req[t] EXCEPT !.pc = "loop", !.exc = NoExc,
                                      !.idx = @ + 1 ])
            /\ try_dump_list' =
                   IF InList(dump_func(t), try_dump_list)
                   THEN list_remove(try_dump_list, dump_func(t))
                   ELSE try_dump_list
       ELSE /\ Raise(t, req[t].exc, "_dump_hierarchy_raw")
            /\ UNCHANGED try_dump_list
    /\ UNCHANGED << served, shell_call, screenshot_call, control_call, parse_call >>

(* an except clause that tries the failed strategy again *)
Except_retries(t) ==
    /\ req[t].pc = "except"
    /\ IF req[t].exc \in CaughtByDumpRaw
       THEN Set(t, [ req[t] EXCEPT !.pc = "loop", !.exc = NoExc ])
       ELSE Raise(t, req[t].exc, "_dump_hierarchy_raw")
    /\ UNCHANGED << try_dump_list, served, shell_call, screenshot_call, control_call, parse_call >>

(* the except clause of _dump_hierarchy_raw: continue, or propagate *)
Except(t) ==
    /\ req[t].pc = "except"
    /\ IF req[t].exc \in CaughtByDumpRaw
       THEN Set(t, [ req[t] EXCEPT !.pc = "loop", !.exc = NoExc,
                                   !.idx = @ + 1 ])
       ELSE Raise(t, req[t].exc, "_dump_hierarchy_raw")
    /\ UNCHANGED << try_dump_list, served, shell_call, screenshot_call, control_call, parse_call >>

(* self._try_dump_list.remove(dump_func); ValueError when it is absent *)
Remove(t) ==
    /\ req[t].pc = "remove"
    /\ IF InList(dump_func(t), try_dump_list)
       THEN /\ try_dump_list' = list_remove(try_dump_list, dump_func(t))
            /\ Set(t, [ req[t] EXCEPT !.pc = "insert" ])
       ELSE /\ Raise(t, ValueError, "_dump_hierarchy_raw")
            /\ UNCHANGED try_dump_list
    /\ UNCHANGED << served, shell_call, screenshot_call, control_call, parse_call >>

(* self._try_dump_list.insert(0, dump_func); return result *)
Insert(t) ==
    /\ req[t].pc = "insert"
    /\ try_dump_list' = list_insert0(try_dump_list, dump_func(t))
    /\ Set(t, [ req[t] EXCEPT !.pc = "parse" ])
    /\ UNCHANGED << served, shell_call, screenshot_call, control_call, parse_call >>

(* a dump_hierarchy that returns no tree when parse_xml raises *)
Parse_swallows(t) ==
    /\ req[t].pc = "parse"
    /\ LET r == parse_xml(req[t].result, req[t].wsize)
       IN  Set(t, [ req[t] EXCEPT !.pc = "done",
                       !.resp = << req[t].result, r.node >> ])
    /\ UNCHANGED << try_dump_list, served, shell_call, screenshot_call, control_call, parse_call >>

(* a dump_hierarchy that puts the list back when parse_xml raises *)
Parse_restores(t) ==
    /\ req[t].pc = "parse"
    /\ LET r == parse_xml(req[t].result, req[t].wsize)
       IN  IF r.exc # NoExc
           THEN /\ Raise(t, r.exc, "parse_xml")
                /\ try_dump_list' = req[t].snap
           ELSE /\ Set(t, [ req[t] EXCEPT !.pc = "done",
                               !.resp = << req[t].result, r.node >> ])
                /\ UNCHANGED try_dump_list
    /\ UNCHANGED << served, shell_call, screenshot_call, control_call, parse_call >>

(* return xml_data, parse_xml(xml_data, WindowSize(...)) *)
Parse(t) ==
    /\ req[t].pc = "parse"
    /\ LET r == parse_xml(req[t].result, req[t].wsize)
       IN  IF r.exc # NoExc
           THEN Raise(t, r.exc, "parse_xml")
           ELSE Set(t, [ req[t] EXCEPT !.pc = "done",
                            !.resp = << req[t].result, r.node >> ])
    /\ UNCHANGED << try_dump_list, served, shell_call, screenshot_call, control_call, parse_call >>

(* the strategy whose payload parse_xml rejected in the request that ends, *)
(* "" when the request did not end that way                                *)
ParseFailedOn(t) ==
    IF req[t].pc = "raised" /\ req[t].stage = "parse_xml"
    THEN dump_func(t) ELSE ""

(* android_hierarchy: the response (200 or 500) leaves, the thread is free; *)
(* prev remembers how the request ended for the next one of the thread     *)
Respond(t) ==
    /\ req[t].pc \in { "done", "raised" }
    /\ Set(t, [ IdleReq EXCEPT !.prev = ParseFailedOn(t) ])
    /\ UNCHANGED << try_dump_list, served, shell_call, screenshot_call, control_call, parse_call >>

(* ---------------------------------------------------------------------- *)
(* shell                                                                   *)
(* ---------------------------------------------------------------------- *)
MaxReturnCode == 3

ReturnCodes == 0..MaxReturnCode

Outputs == { "", "ok" }

TimeoutError == "TimeoutError"

(* what self.device.shell2(command, rstrip=True, timeout=20) does:         *)
(* it returns (returncode, output) or raises exc                           *)
Shell2Outcomes ==
    { [ exc |-> NoExc, returncode |-> rc, output |-> o ] :
        rc \in ReturnCodes, o \in Outputs }
    \cup { [ exc |-> e, returncode |-> 0, output |-> "" ] :
             e \in { AdbError, TimeoutError } }

(* Optional[str]: None is the empty tuple, a string s is << s >> *)
Some(x) == << x >>

ShellResponse(output, error) == [ output |-> output, error |-> error ]

(* shell that hands the captured output back on a non-zero exit code *)
shell_keeps_output(ret) ==
    IF ret.exc # NoExc
    THEN [ raised |-> NoExc,
           response |-> ShellResponse("", Some("adb error: " \o ret.exc)) ]
    ELSE IF ret.returncode = 0
    THEN [ raised |-> NoExc,
           response |-> ShellResponse(ret.output, None) ]
    ELSE [ raised |-> NoExc,
           response |-> ShellResponse(ret.output,
               Some("exit:" \o ToString(ret.returncode)
                    \o ", output:" \o ret.output)) ]

(* AndroidDriver.shell: [raised, response] *)
shell(ret) ==
    IF ret.exc # NoExc
    THEN [ raised |-> NoExc,
           response |-> ShellResponse("", Some("adb error: " \o ret.exc)) ]
    ELSE IF ret.returncode = 0
    THEN [ raised |-> NoExc,
           response |-> ShellResponse(ret.output, None) ]
    ELSE [ raised |-> NoExc,
           response |-> ShellResponse("",
               Some("exit:" \o ToString(ret.returncode)
                    \o ", output:" \o ret.output)) ]

NoShellCall ==
    [ called |-> FALSE, ret |-> [ exc |-> NoExc, returncode |-> 0, output |-> "" ],
      raised |-> NoExc, response |-> ShellResponse("", None) ]

(* android_shell -> driver.shell(payload.command) *)
Shell ==
    /\ \E ret \in Shell2Outcomes :
          LET r == shell(ret)
          IN  shell_call' = [ called |-> TRUE, ret |-> ret,
                              raised |-> r.raised, response |-> r.response ]
    /\ UNCHANGED << try_dump_list, req, served, screenshot_call, control_call, parse_call >>

(* ---------------------------------------------------------------------- *)
(* screenshot                                                              *)
(* ---------------------------------------------------------------------- *)
MaxDisplayId == 2

DisplayIds == (-1)..MaxDisplayId

OSError == "OSError"

(* self.device.screenshot() followed by img.convert("RGB") *)
DirectOutcomes == { "image", AdbError, OSError }

(* self.udt.screenshot() *)
UdtOutcomes == { "image", UDTError }

(* the device I/O of screenshot, in the order it is attempted *)
device_screenshot == "device.screenshot"
udt_screenshot == "udt.screenshot"

(* a screenshot that falls back to the backend on any failure of the      *)
(* direct capture                                                          *)
screenshot_falls_back_always(id, direct, backend) ==
    IF id > 0
    THEN [ raised |-> ValueError, image |-> "", direct |-> 0, backend |-> 0,
           calls |-> <<>> ]
    ELSE IF direct = "image"
    THEN [ raised |-> NoExc, image |-> "direct", direct |-> 1, backend |-> 0,
           calls |-> << device_screenshot >> ]
    ELSE (IF backend = "image"
          THEN [ raised |-> NoExc, image |-> "backend",
                 direct |-> 1, backend |-> 1,
                 calls |-> << device_screenshot, udt_screenshot >> ]
          ELSE [ raised |-> backend, image |-> "",
                 direct |-> 1, backend |-> 1,
                 calls |-> << device_screenshot, udt_screenshot >> ])

(* AndroidDriver.screenshot: [raised, image, direct, backend, calls];      *)
(* direct and backend count the captures attempted on the device and on    *)
(* the backend, calls lists them in the order of the attempts              *)
screenshot(id, direct, backend) ==
    IF id > 0
    THEN [ raised |-> ValueError, image |-> "", direct |-> 0, backend |-> 0,
           calls |-> <<>> ]
    ELSE IF direct = "image"
    THEN [ raised |-> NoExc, image |-> "direct", direct |-> 1, backend |-> 0,
           calls |-> << device_screenshot >> ]
    ELSE IF direct = AdbError
    THEN (IF backend = "image"
          THEN [ raised |-> NoExc, image |-> "backend",
                 direct |-> 1, backend |-> 1,
                 calls |-> << device_screenshot, udt_screenshot >> ]
          ELSE [ raised |-> backend, image |-> "",
                 direct |-> 1, backend |-> 1,
                 calls |-> << device_screenshot, udt_screenshot >> ])
    ELSE [ raised |-> direct, image |-> "", direct |-> 1, backend |-> 0,
           calls |-> << device_screenshot >> ]

NoScreenshotCall ==
    [ called |-> FALSE, id |-> 0, direct_outcome |-> "image",
      raised |-> NoExc, image |-> "",
      direct |-> 0, backend |-> 0, calls |-> <<>> ]

(* android_screenshot -> driver.screenshot(id) *)
Screenshot ==
    /\ \E id \in DisplayIds, direct \in DirectOutcomes, backend \in UdtOutcomes :
          LET r == screenshot(id, direct, backend)
          IN  screenshot_call' =
                  [ called |-> TRUE, id |-> id, direct_outcome |-> direct,
                    raised |-> r.raised,
                    image |-> r.image, direct |-> r.direct,
                    backend |-> r.backend, calls |-> r.calls ]
    /\ UNCHANGED << try_dump_list, req, served, shell_call, control_call,
                    parse_call >>

(* ---------------------------------------------------------------------- *)
(* Device control: tap, app_launch, app_terminate, home, wake_up           *)
(* ---------------------------------------------------------------------- *)
ControlOps == { "tap", "app_launch", "app_terminate", "home", "wake_up" }

(* what one call of the device connection does: it returns a value,        *)
(* returns None (package_info of a package that is not installed), or      *)
(* raises adbutils.AdbError                                                *)
DeviceOutcomes == { "ok", "None", AdbError }

(* the exception that leaves the operation, NoExc when it returns; first   *)
(* and second are the outcomes of its first and second device call         *)
control(op, first, second) ==
    IF op = "app_launch"
    THEN (IF first = AdbError THEN AdbError
          ELSE IF first = "None" THEN AndroidDriverException
          ELSE IF second = AdbError THEN AdbError
          ELSE NoExc)
    ELSE (IF first = AdbError THEN AdbError ELSE NoExc)

NoControlCall ==
    [ called |-> FALSE, op |-> "", first |-> "ok", raised |-> NoExc ]

(* one call of tap / app_launch / app_terminate / home / wake_up *)
Control ==
    /\ \E op \in ControlOps, first \in DeviceOutcomes, second \in DeviceOutcomes :
          control_call' = [ called |-> TRUE, op |-> op, first |-> first,
                            raised |-> control(op, first, second) ]
    /\ UNCHANGED << try_dump_list, req, served, shell_call, screenshot_call,
                    parse_call >>

(* ---------------------------------------------------------------------- *)
(* parse_xml_element on its own: the elements and geometry it is given     *)
(* ---------------------------------------------------------------------- *)
MaxDepth == 2

MaxChildren == 2

MaxCoord == 10

MaxDim == 3

(* the shapes of element trees: a shape is the tuple of its child shapes *)
RECURSIVE Shapes(_)
Shapes(depth) ==
    IF depth = 0 THEN { <<>> }
    ELSE UNION { [ 1..n -> Shapes(depth - 1) ] : n \in 0..MaxChildren }

GoodBounds == << "[","0",",","1","]","[","2",",","4","]" >>

ShortBounds == << "[","1",",","2","]","[","3","]" >>

(* the attributes an element carries *)
AttribChoices ==
    { NoAttrib,
      [ k \in {"class"} |-> << "a", ".", "F" >> ],
      [ k \in {"bounds"} |-> GoodBounds ],
      [ k \in {"text", "bounds"} |->
          IF k = "text" THEN << "o", "k" >> ELSE GoodBounds ],
      [ k \in {"bounds"} |-> ShortBounds ] }

(* the element tree of a shape: here on the root, below on the others *)
RECURSIVE Decorate(_, _, _)
Decorate(shape, here, below) ==
    Element(S_node, here,
            [ i \in 1..Len(shape) |-> Decorate(shape[i], below, below) ])

Elements ==
    { Decorate(shape, here, below) :
        shape \in Shapes(MaxDepth), here \in AttribChoices,
        below \in AttribChoices }

DigitChar(k) ==
    CASE k = 0 -> "0" [] k = 1 -> "1" [] k = 2 -> "2" [] k = 3 -> "3"
      [] k = 4 -> "4" [] k = 5 -> "5" [] k = 6 -> "6" [] k = 7 -> "7"
      [] k = 8 -> "8" [] k = 9 -> "9"

(* the decimal text of n >= 0 *)
RECURSIVE Decimal(_)
Decimal(n) ==
    IF n < 10 THEN << DigitChar(n) >>
    ELSE Decimal(n \div 10) \o << DigitChar(n % 10) >>

(* the geometry text "[x1,y1][x2,y2]" of uiautomator *)
Geometry(c) ==
    << "[" >> \o Decimal(c[1]) \o << "," >> \o Decimal(c[2]) \o << "]" >>
    \o << "[" >> \o Decimal(c[3]) \o << "," >> \o Decimal(c[4]) \o << "]" >>

Coords == 0..MaxCoord

Dims == 1..MaxDim

(* parse_xml: parse_xml_element(root, wsize) with the default indexes [0] *)
ParseXmlElement ==
    /\ ~parse_call.called
    /\ LET r == parse_xml_element(parse_call.element, parse_call.wsize, << 0 >>)
       IN  parse_call' = [ parse_call EXCEPT !.called = TRUE,
                                             !.exc = r.exc, !.node = r.node ]
    /\ UNCHANGED << try_dump_list, req, served, shell_call, screenshot_call,
                    control_call >>

(* ---------------------------------------------------------------------- *)
(* Specifications                                                          *)
(* ---------------------------------------------------------------------- *)

(* AndroidDriver.__init__ *)
Init ==
    /\ try_dump_list = InitDumpList
    /\ req = [ t \in Threads |-> IdleReq ]
    /\ served = 0
    /\ shell_call = NoShellCall
    /\ screenshot_call = NoScreenshotCall
    /\ control_call = NoControlCall
    /\ parse_call = NoParseCall

(* Spec: the requests to the driver arrive one after the other; one        *)
(* thread serves the dump requests.                                        *)
Next ==
    \/ DumpHierarchy(1)
    \/ CopyList(1)
    \/ LoopNext(1)
    \/ Connect(1)
    \/ Fetch(1)
    \/ Loads(1)
    \/ Finally(1)
    \/ Call(1)
    \/ Except(1)
    \/ Remove(1)
    \/ Insert(1)
    \/ Parse(1)
    \/ Respond(1)

Spec == Init /\ [][Next]_vars

(* ConcSpec: dump requests for the same device are served by several       *)
(* threads at once; their steps interleave.                                *)
ConcNext ==
    \E t \in Threads :
        \/ DumpHierarchy(t)
        \/ CopyList(t)
        \/ LoopNext(t)
        \/ Connect(t)
        \/ Fetch(t)
        \/ Loads(t)
        \/ Finally(t)
        \/ Call(t)
        \/ Except(t)
        \/ Remove(t)
        \/ Insert(t)
        \/ Parse(t)
        \/ Respond(t)

ConcSpec == Init /\ [][ConcNext]_vars

(* OpsSpec: the operations of the driver that keep no state between calls  *)
OpsNext ==
    \/ Shell
    \/ Screenshot
    \/ Control

OpsSpec == Init /\ [][OpsNext]_vars

(* ParseSpec: parse_xml_element applied to one of the element trees *)
ParseInit ==
    /\ try_dump_list = InitDumpList
    /\ req = [ t \in Threads |-> IdleReq ]
    /\ served = 0
    /\ shell_call = NoShellCall
    /\ screenshot_call = NoScreenshotCall
    /\ control_call = NoControlCall
    /\ \E e \in Elements, ws \in WindowSizes :
          parse_call = [ NoParseCall EXCEPT !.element = e, !.wsize = ws ]

ParseNext == ParseXmlElement

ParseSpec == ParseInit /\ [][ParseNext]_vars

(* NormSpec: parse_xml_element applied to one element whose bounds are the *)
(* geometry text of four coordinates, for a window of any small size       *)
NormInit ==
    /\ try_dump_list = InitDumpList
    /\ req = [ t \in Threads |-> IdleReq ]
    /\ served = 0
    /\ shell_call = NoShellCall
    /\ screenshot_call = NoScreenshotCall
    /\ control_call = NoControlCall
    /\ \E c \in Coords \X Coords \X Coords \X Coords, w \in Dims, h \in Dims :
          parse_call =
              [ NoParseCall EXCEPT
                  !.element = Element(S_node,
                                      [ k \in {"bounds"} |-> Geometry(c) ],
                                      <<>>),
                  !.coords = c,
                  !.wsize = WindowSize(w, h) ]

NormNext == ParseXmlElement

NormSpec == NormInit /\ [][NormNext]_vars

(* ---------------------------------------------------------------------- *)
(* Properties                                                              *)
(* ---------------------------------------------------------------------- *)
IsPermutationOfInit(l) ==
    /\ Len(l) = Len(InitDumpList)
    /\ \A f \in Strategies : Count(f, l) = 1

(* l without the entries equal to f, the others in their order *)
Without(l, f) == SelectSeq(l, LAMBDA g : g # f)

(* _dump_hierarchy_raw of thread t has returned a payload *)
RawReturned(t) ==
    \/ req[t].pc \in { "parse", "done" }
    \/ req[t].pc = "raised" /\ req[t].stage = "parse_xml"

(* C1: when requests are served one after the other and _dump_hierarchy_raw *)
(* returns the payload of the strategy at position idx of the order it     *)
(* started with, the list is that strategy followed by all the others in   *)
(* their previous relative order.                                          *)
C1_PromotedToFront ==
    \A t \in Threads :
        RawReturned(t) =>
            try_dump_list =
                << dump_func(t) >> \o Without(req[t].snap, dump_func(t))

(* from [u2, udt, ...]: u2 failed and udt succeeded, then udt failed and   *)
(* u2 succeeded: the order is the initial one again                        *)
C1_Witness ==
    /\ req[1].pc = "parse"
    /\ req[1].idx = 2
    /\ req[1].snap = << udt_dump_hierarchy, get_u2_hierarchy,
                        get_appium_hierarchy, device_dump_hierarchy >>
    /\ try_dump_list = InitDumpList

(* C2: when every strategy of the list has failed with an error the engine *)
(* catches, the request fails with "Failed to dump hierarchy" and the      *)
(* order after the call is the order before the call.                      *)
C2_AllFailedKeepsOrder ==
    /\ [] (\A t \in Threads :
             (req[t].pc = "raised" /\ req[t].err = FailedToDump) =>
                 /\ req[t].stage = "_dump_hierarchy_raw"
                 /\ req[t].idx = Len(InitDumpList) + 1
                 /\ try_dump_list = req[t].snap)
    /\ [][ \A t \in Threads :
             (req[t].pc = "loop" /\ req[t].idx > Len(req[t].snap)
              /\ req'[t] # req[t]) =>
                 /\ req'[t].pc = "raised"
                 /\ req'[t].err = FailedToDump
                 /\ try_dump_list = req[t].snap
                 /\ try_dump_list' = req[t].snap ]_vars

C2_Witness ==
    /\ req[1].pc = "raised"
    /\ req[1].err = FailedToDump
    /\ req[1].snap # InitDumpList
    /\ try_dump_list = req[1].snap

(* C3: when requests are served one after the other, the list is a         *)
(* permutation of the strategies of __init__ whenever no request is        *)
(* between its remove and its insert, in particular after every request.   *)
C3_AlwaysPermutation ==
    (\A t \in Threads : req[t].pc # "insert") =>
        IsPermutationOfInit(try_dump_list)

C3_Witness ==
    /\ req[1].pc = "idle"
    /\ served = 2
    /\ try_dump_list # InitDumpList
    /\ try_dump_list[1] = device_dump_hierarchy

(* C4: with concurrent requests on one driver, the list never holds a      *)
(* duplicate and never lacks an entry, neither in the copy a request takes *)
(* of it nor once all requests have finished.                              *)
C4_NeverCorrupt ==
    /\ \A f \in Strategies : Count(f, try_dump_list) <= 1
    /\ \A t \in Threads :
           req[t].snap # <<>> => IsPermutationOfInit(req[t].snap)
    /\ (\A t \in Threads : req[t].pc = "idle") =>
           IsPermutationOfInit(try_dump_list)

(* the kinds of failure the engine is meant to recover from *)
TransportFailures == { AdbError, RequestException, UDTError }

ProtocolFailures == { AndroidDriverException }

TimeoutFailures == { SocketTimeout }

RecoverableFailures ==
    TransportFailures \cup ProtocolFailures \cup TimeoutFailures

(* C5: a strategy that fails with a transport failure, a protocol-level    *)
(* error response or a timeout never makes the request fail by itself: the *)
(* engine goes on with the next strategy of its order.                     *)
C5_RecoverableMeansNext ==
    /\ [] (\A t \in Threads :
             (req[t].pc = "raised" /\ req[t].stage = "_dump_hierarchy_raw")
                 => req[t].err \notin RecoverableFailures)
    /\ [][ \A t \in Threads :
             (req[t].pc = "except" /\ req[t].exc \in RecoverableFailures
              /\ req'[t] # req[t]) =>
                 /\ req'[t].pc = "loop"
                 /\ req'[t].idx = req[t].idx + 1
                 /\ req'[t].snap = req[t].snap
                 /\ try_dump_list' = try_dump_list ]_vars

(* the third strategy timed out after the first two failed and were caught *)
C5_Witness ==
    /\ req[1].pc = "except"
    /\ req[1].exc = SocketTimeout
    /\ req[1].idx = 3

(* C6: the only error _dump_hierarchy_raw surfaces is "Failed to dump      *)
(* hierarchy".                                                             *)
C6_OnlyAllFailedSurfaces ==
    \A t \in Threads :
        (req[t].pc = "raised" /\ req[t].stage = "_dump_hierarchy_raw") =>
            req[t].err = FailedToDump

(* C7: screenshot(id) with id other than 0 fails with the unsupported      *)
(* display error and attempts no capture.                                  *)
C7_OnlyDisplayZero ==
    (screenshot_call.called /\ screenshot_call.id # 0) =>
        /\ screenshot_call.raised = ValueError
        /\ screenshot_call.direct = 0
        /\ screenshot_call.backend = 0

(* C8: shell never raises; exit code 0 gives the output and no error, any  *)
(* other exit code gives "" and "exit:<code>, output:<output>", a failure  *)
(* of the call gives "" and the cause; an error always comes with "".      *)
C8_ShellFoldsOutcomes ==
    shell_call.called =>
        LET ret == shell_call.ret
            response == shell_call.response
        IN  /\ shell_call.raised = NoExc
            /\ (ret.exc = NoExc /\ ret.returncode = 0) =>
                   /\ response.output = ret.output
                   /\ response.error = None
            /\ (ret.exc = NoExc /\ ret.returncode # 0) =>
                   /\ response.output = ""
                   /\ response.error =
                          Some("exit:" \o ToString(ret.returncode)
                               \o ", output:" \o ret.output)
            /\ ret.exc # NoExc =>
                   /\ response.output = ""
                   /\ response.error = Some("adb error: " \o ret.exc)
            /\ response.error # None => response.output = ""

C8_Witness ==
    /\ shell_call.called
    /\ shell_call.ret.exc = NoExc
    /\ shell_call.ret.returncode = 1
    /\ shell_call.ret.output = "ok"
    /\ shell_call.response = ShellResponse("", Some("exit:1, output:ok"))

(* C9 as claimed: dump_hierarchy fails only in the Fallback Engine; no     *)
(* failure of the window-size capture or of parsing makes it fail.         *)
C9_FailsOnlyInEngine ==
    \A t \in Threads :
        req[t].pc = "raised" => req[t].stage = "_dump_hierarchy_raw"

(* C9 amended: dump_hierarchy returns the payload and its Node tree        *)
(* exactly when the window size was captured, the engine returned a        *)
(* payload and parse_xml accepted it; it fails when the window-size        *)
(* capture fails (no strategy is invoked then), when the engine raises,    *)
(* and when parse_xml raises on the payload a strategy returned.           *)
C9_FailsAtThreeStages ==
    \A t \in Threads :
        /\ req[t].pc = "done" =>
               /\ req[t].wsize \in WindowSizes
               /\ req[t].result \in Payloads
               /\ fromstring(req[t].result).exc = NoExc
               /\ parse_xml(req[t].result, req[t].wsize).exc = NoExc
               /\ req[t].resp[1] = req[t].result
               /\ req[t].resp[2].key = "0"
        /\ req[t].pc = "raised" =>
               /\ req[t].stage \in
                      { "window_size", "_dump_hierarchy_raw", "parse_xml" }
               /\ req[t].stage = "window_size" =>
                      /\ req[t].err = AdbError
                      /\ req[t].snap = <<>>
               /\ req[t].stage = "parse_xml" =>
                      /\ req[t].result \in Payloads
                      /\ req[t].err \in { ParseError, AssertionError }
                      /\ req[t].err =
                             parse_xml(req[t].result, req[t].wsize).exc

(* a strategy returned a payload, and dump_hierarchy failed in parse_xml *)
C9_Witness ==
    /\ req[1].pc = "raised"
    /\ req[1].stage = "parse_xml"
    /\ req[1].err = ParseError
    /\ req[1].result = XmlNotWellFormed

(* C10: the connection a socket strategy acquires is released exactly once *)
(* before the strategy call ends, on every exit path; it is open only      *)
(* while the strategy is between create_connection and c.close().          *)
C10_ConnectionReleased ==
    \A t \in Threads :
        /\ req[t].acquired <= 1
        /\ req[t].pc \in { "fetch", "loads", "finally" } =>
               (req[t].acquired = 1 /\ req[t].released = 0)
        /\ req[t].pc \notin { "fetch", "loads", "finally" } =>
               req[t].released = req[t].acquired

(* the reply of the backend was not JSON: the strategy call ended with     *)
(* the error, and its connection is closed                                 *)
C10_Witness ==
    /\ req[1].pc = "except"
    /\ req[1].exc = JSONDecodeError
    /\ req[1].acquired = 1
    /\ req[1].released = 1

(* C15: a transport failure under tap, app_launch, app_terminate, home or  *)
(* wake_up leaves the driver as AndroidDriverException, never as an        *)
(* exception of the device-connection library.                             *)
C15_TypedDriverErrors ==
    control_call.called =>
        control_call.raised \in { NoExc, AndroidDriverException }

(* C16: screenshot(0) attempts the direct capture first; the backend       *)
(* capture is attempted only after the direct capture raised AdbError, and *)
(* at most once; after a successful direct capture it is not attempted.    *)
C16_DirectThenBackend ==
    (screenshot_call.called /\ screenshot_call.id = 0) =>
        LET calls == screenshot_call.calls
        IN  /\ calls # <<>>
            /\ calls[1] = device_screenshot
            /\ Count(device_screenshot, calls) = 1
            /\ Count(udt_screenshot, calls) <= 1
            /\ InList(udt_screenshot, calls) =>
                   /\ screenshot_call.direct_outcome = AdbError
                   /\ calls = << device_screenshot, udt_screenshot >>
            /\ screenshot_call.direct_outcome = "image" =>
                   /\ calls = << device_screenshot >>
                   /\ screenshot_call.raised = NoExc
                   /\ screenshot_call.image = "direct"

C16_Witness ==
    /\ screenshot_call.called
    /\ screenshot_call.id = 0
    /\ screenshot_call.direct_outcome = AdbError
    /\ screenshot_call.calls = << device_screenshot, udt_screenshot >>
    /\ screenshot_call.image = "backend"

NoRepeat(l) == \A i, j \in 1..Len(l) : i # j => l[i] # l[j]

(* the strategy call of the request has ended and the loop will not run    *)
(* another one                                                             *)
RawEnded(t) ==
    req[t].pc \in { "remove", "insert", "parse", "done", "raised" }

(* C17: within one request the strategies are invoked in the order of the  *)
(* copy taken when the request started, front to back, each at most once,  *)
(* none after the first success or after the request has failed, so there  *)
(* are at most as many invocations as the list has strategies.             *)
C17_InOrderOnceNoRetry ==
    /\ [] (\A t \in Threads :
             /\ Len(req[t].tried) <= Len(req[t].snap)
             /\ Len(req[t].tried) <= Len(InitDumpList)
             /\ req[t].tried = SubSeq(req[t].snap, 1, Len(req[t].tried))
             /\ NoRepeat(req[t].tried)
             /\ req[t].pc \in { "remove", "insert", "parse", "done" } =>
                    /\ req[t].tried # <<>>
                    /\ req[t].tried[Len(req[t].tried)] = dump_func(t))
    /\ [][ \A t \in Threads :
             RawEnded(t) =>
                 \/ req'[t].tried = req[t].tried
                 \/ req'[t].pc = "idle" ]_vars

(* the fourth strategy is invoked after three caught failures *)
C17_Witness ==
    /\ req[1].pc = "call"
    /\ req[1].tried = InitDumpList
    /\ req[2].pc = "idle"

(* C18: a request fails with "Failed to dump hierarchy" only after every   *)
(* strategy of the driver was invoked in that request, also when other     *)
(* requests promote strategies at the same time.                           *)
C18_FailsAfterAllTried ==
    \A t \in Threads :
        (req[t].pc = "raised" /\ req[t].err = FailedToDump) =>
            { req[t].tried[i] : i \in 1..Len(req[t].tried) } = Strategies

(* C19: when dump_hierarchy fails in parse_xml, the strategy that returned *)
(* the payload is at the front of the list after the failed call, and the  *)
(* next request (requests served one after the other) invokes it first.    *)
C19_PromotedBeforeParse ==
    \A t \in Threads :
        /\ (req[t].pc = "raised" /\ req[t].stage = "parse_xml") =>
               /\ req[t].err \in { ParseError, AssertionError }
               /\ try_dump_list[1] = dump_func(t)
        /\ (req[t].prev # "" /\ req[t].pc \in { "idle", "raw" }) =>
               try_dump_list[1] = req[t].prev
        /\ (req[t].prev # "" /\ req[t].tried # <<>>) =>
               req[t].tried[1] = req[t].prev

(* u2 failed, udt returned markup with malformed bounds; the next request  *)
(* starts with udt                                                         *)
C19_Witness ==
    /\ req[1].prev = udt_dump_hierarchy
    /\ req[1].tried = << udt_dump_hierarchy >>
    /\ req[1].pc = "call"

(* number of elements of an element tree *)
RECURSIVE CountElements(_)
RECURSIVE CountElementsFrom(_, _)
CountElementsFrom(children, i) ==
    IF i > Len(children) THEN 0
    ELSE CountElements(children[i]) + CountElementsFrom(children, i + 1)

CountElements(element) == 1 + CountElementsFrom(element.children, 1)

(* the keys of a Node tree, parents before children, siblings in order *)
RECURSIVE KeysOf(_)
RECURSIVE KeysFrom(_, _)
KeysFrom(nodes, i) ==
    IF i > Len(nodes) THEN <<>>
    ELSE KeysOf(nodes[i]) \o KeysFrom(nodes, i + 1)

KeysOf(node) == << node.key >> \o KeysFrom(node.children, 1)

(* node is the Node of element, its key is key, and its children are the   *)
(* Nodes of the children of element, in their order, keyed key-0, key-1... *)
RECURSIVE Mirrors(_, _, _)
Mirrors(node, element, key) ==
    /\ node.key = key
    /\ Len(node.children) = Len(element.children)
    /\ \A i \in 1..Len(element.children) :
           Mirrors(node.children[i], element.children[i],
                   key \o "-" \o ToString(i - 1))

(* number of maximal runs of digits in a text *)
DigitRuns(text) ==
    Cardinality({ i \in 1..Len(text) :
                    /\ text[i] \in Digits
                    /\ (i = 1 \/ text[i-1] \notin Digits) })

(* some element of the tree has bounds that do not hold four integers *)
RECURSIVE HasMalformedBounds(_)
HasMalformedBounds(element) ==
    \/ /\ "bounds" \in DOMAIN element.attrib
       /\ DigitRuns(element.attrib["bounds"]) # 4
    \/ \E i \in 1..Len(element.children) :
           HasMalformedBounds(element.children[i])

(* C11: for an element tree with valid geometry, parse_xml returns one     *)
(* Node per element in document order; the root key is "0", every key is   *)
(* the dash-joined path of sibling indices, and no two Nodes share a key.  *)
C11_OneNodePerElement ==
    parse_call.called =>
        /\ ~HasMalformedBounds(parse_call.element) => parse_call.exc = NoExc
        /\ parse_call.exc = NoExc =>
               /\ parse_call.node.key = "0"
               /\ Mirrors(parse_call.node, parse_call.element, "0")
               /\ Len(KeysOf(parse_call.node))
                      = CountElements(parse_call.element)
               /\ NoRepeat(KeysOf(parse_call.node))

(* a tree of seven elements, three levels deep *)
C11_Witness ==
    /\ parse_call.called
    /\ parse_call.exc = NoExc
    /\ KeysOf(parse_call.node)
           = << "0", "0-0", "0-0-0", "0-0-1", "0-1", "0-1-0", "0-1-1" >>

(* the properties of every Node are the attributes of its element other    *)
(* than bounds, with their values                                          *)
RECURSIVE PropertiesOmitBounds(_, _)
PropertiesOmitBounds(node, element) ==
    /\ DOMAIN node.properties = DOMAIN element.attrib \ { "bounds" }
    /\ \A k \in DOMAIN node.properties :
           node.properties[k] = element.attrib[k]
    /\ \A i \in 1..Len(element.children) :
           PropertiesOmitBounds(node.children[i], element.children[i])

(* C12: the properties of a Node hold every attribute of the element       *)
(* except bounds, verbatim; bounds is never a key of properties.           *)
C12_PropertiesWithoutBounds ==
    (parse_call.called /\ parse_call.exc = NoExc) =>
        PropertiesOmitBounds(parse_call.node, parse_call.element)

(* the window dimension coordinate i is divided by *)
DimOf(wsize, i) == IF i \in { 1, 3 } THEN wsize.width ELSE wsize.height

Abs(x) == IF x < 0 THEN -x ELSE x

(* C13 as claimed: for four non-negative integers and a positive window    *)
(* size the normalized bounds lie in [0,1] and scale back to within one    *)
(* pixel of the integers (bounds are in units of 1/10000).                 *)
C13_InUnitRangeAndRoundTrip ==
    (parse_call.called /\ parse_call.coords # <<>>) =>
        /\ parse_call.exc = NoExc
        /\ \A i \in 1..4 :
               /\ parse_call.node.bounds[i] >= 0
               /\ parse_call.node.bounds[i] <= 10000
               /\ Abs(parse_call.node.bounds[i] * DimOf(parse_call.wsize, i)
                      - 10000 * parse_call.coords[i]) <= 10000

(* C13 amended: the normalized bounds are never negative, lie in [0,1]     *)
(* whenever the coordinate does not exceed the window dimension it is      *)
(* divided by, and differ from coordinate/dimension by at most 0.00005, so *)
(* that they scale back to within dimension/20000 pixel of the integer.    *)
C13_RangeWithinWindow ==
    (parse_call.called /\ parse_call.coords # <<>>) =>
        /\ parse_call.exc = NoExc
        /\ Len(parse_call.node.bounds) = 4
        /\ \A i \in 1..4 :
               LET b == parse_call.node.bounds[i]
                   dim == DimOf(parse_call.wsize, i)
                   c == parse_call.coords[i]
               IN  /\ b >= 0
                   /\ c <= dim => b <= 10000
                   /\ c = dim => b = 10000
                   /\ 2 * Abs(b * dim - 10000 * c) <= dim

(* "[1,2][10,3]" in a 3x3 window *)
C13_Witness ==
    /\ parse_call.called
    /\ parse_call.coords = << 1, 2, 10, 3 >>
    /\ parse_call.wsize = WindowSize(3, 3)
    /\ parse_call.node.bounds = << 3333, 6667, 33333, 10000 >>

(* C14: when an element of the payload has bounds that do not hold four    *)
(* integers, dump_hierarchy fails with the assertion error of the          *)
(* normalization and returns no tree.                                      *)
C14_MalformedBoundsFailDump ==
    \A t \in Threads :
        (/\ RawReturned(t)
         /\ req[t].pc # "parse"
         /\ fromstring(req[t].result).exc = NoExc
         /\ HasMalformedBounds(fromstring(req[t].result).root)) =>
            /\ req[t].pc = "raised"
            /\ req[t].stage = "parse_xml"
            /\ req[t].err = AssertionError
            /\ req[t].resp = <<>>

(* five integers in the bounds of a grandchild, after a sibling that is    *)
(* well formed                                                             *)
C14_Witness ==
    /\ req[1].pc = "raised"
    /\ req[1].stage = "parse_xml"
    /\ req[1].err = AssertionError
    /\ req[1].result = XmlExtraBounds

====
